---- MODULE Spec2Model ----
(***************************************************************************)
(* Model of the todo-agent memory store (src/src/todo/memory.py) and of    *)
(* the agent entry points that drive it (src/src/todo/agent.py).           *)
(*                                                                         *)
(* Python values are modelled as follows:                                  *)
(*   - a dict is a function from key strings to values (a record);         *)
(*   - a list is a sequence;                                               *)
(*   - a task string, and a user input of chat, is a sequence of           *)
(*     one-character strings, so that str.lower() is computed character by *)
(*     character;                                                          *)
(*   - a user name or any other message text is a TLA+ string;             *)
(*   - a datetime.now().isoformat() timestamp is the clock reading (Nat);  *)
(*   - None is the reserved value None below.                              *)
(* The backing file is modelled by what it holds: nothing (missing),       *)
(* bytes that are not UTF-8, text that is not JSON, or a JSON value as a   *)
(* tree of JSON tokens.                                                    *)
(***************************************************************************)
EXTENDS Naturals, Sequences, FiniteSets, TLC

VARIABLES
    store,      \* "unopened" | "fresh" | "loaded" | "failed": MemoryManager.__init__
    memory,     \* self.memory
    file,       \* content of self.memory_file on disk
    clock,      \* last reading of datetime.now()
    failures,   \* number of file writes that failed so far
    nconv,      \* number of add_conversation calls so far
    op          \* the last call: name, argument, return value, exception, save outcome

vars == <<store, memory, file, clock, failures, nconv, op>>

-----------------------------------------------------------------------------
(* Bounds of the model *)

MaxClock == 2
MaxTodos == 2
MaxConversations == 1
MaxWriteFailures == 1
MaxAppends == 60

(* Program constants *)

HistoryLimit == 50
ContextWindow == 5

-----------------------------------------------------------------------------
(* Python values *)

None == "None:NoneType"

\* str.lower() on one character
LowerChar(c) ==
    CASE c = "A" -> "a" [] c = "B" -> "b" [] c = "C" -> "c" [] c = "D" -> "d"
      [] c = "E" -> "e" [] c = "F" -> "f" [] c = "G" -> "g" [] c = "H" -> "h"
      [] c = "I" -> "i" [] c = "J" -> "j" [] c = "K" -> "k" [] c = "L" -> "l"
      [] c = "M" -> "m" [] c = "N" -> "n" [] c = "O" -> "o" [] c = "P" -> "p"
      [] c = "Q" -> "q" [] c = "R" -> "r" [] c = "S" -> "s" [] c = "T" -> "t"
      [] c = "U" -> "u" [] c = "V" -> "v" [] c = "W" -> "w" [] c = "X" -> "x"
      [] c = "Y" -> "y" [] c = "Z" -> "z" [] OTHER -> c

\* str.lower()
Lower(s) == [i \in DOMAIN s |-> LowerChar(s[i])]

\* dict[key] = value
DictSet(d, k, v) == [x \in (DOMAIN d) \cup {k} |-> IF x = k THEN v ELSE d[x]]

\* key in dict
HasKey(d, k) == k \in DOMAIN d

\* str(v) as an f-string renders it
Str(v) == IF v = None THEN "None" ELSE v

\* a slice that keeps the first n elements instead of the last n
Tail_n_KeepsFirst(s, n) ==
    IF Len(s) <= n THEN s ELSE SubSeq(s, 1, n)

\* seq[-n:]
Tail_n(s, n) ==
    IF Len(s) <= n THEN s ELSE SubSeq(s, Len(s) - n + 1, Len(s))

-----------------------------------------------------------------------------
(* Inputs *)

BuyMilk      == <<"B", "u", "y", " ", "m", "i", "l", "k">>
buy_milk     == <<"b", "u", "y", " ", "m", "i", "l", "k">>
AllTasks     == <<"A", "l", "l", " ", "T", "a", "s", "k", "s">>

\* tasks the todo operations are called with
TaskInputs == {BuyMilk, buy_milk, AllTasks}

NameInputs == {"Ann"}
UserTexts == {"hi"}
AssistantTexts == {"ok"}

\* the k-th user message of a numbered conversation: str(k)
Message(k) == ToString(k)

\* user inputs of chat: a greeting in two spellings, and a request
hi          == <<"h", "i">>
Hello       == <<"H", "e", "l", "l", "o">>
WhatIsLeft  == <<"w", "h", "a", "t", " ", "i", "s", " ", "l", "e", "f", "t">>
ChatInputs  == {hi, Hello, WhatIsLeft}

\* the user text of the entries of a document left by earlier chats
Earlier     == <<"e", "a", "r", "l", "i", "e", "r">>

\* the greetings chat answers without the reasoning loop
Greetings ==
    { <<"h", "i">>,
      <<"h", "e", "l", "l", "o">>,
      <<"h", "e", "y">>,
      <<"g", "o", "o", "d", " ", "m", "o", "r", "n", "i", "n", "g">>,
      <<"g", "o", "o", "d", " ", "a", "f", "t", "e", "r", "n", "o", "o", "n">>,
      <<"g", "o", "o", "d", " ", "e", "v", "e", "n", "i", "n", "g">> }

\* what agent_executor.invoke does: it returns an output or raises
ExecutorOutcomes ==
    { [raised |-> FALSE, output |-> "Nothing is left."],
      [raised |-> TRUE,  error  |-> "429 quota exceeded"] }

\* the "all" sentinels of remove_todo
AllSentinels ==
    { <<"a", "l", "l">>,
      <<"e", "v", "e", "r", "y", "t", "h", "i", "n", "g">>,
      <<"a", "l", "l", " ", "t", "o", "d", "o", "s">>,
      <<"a", "l", "l", " ", "t", "a", "s", "k", "s">> }

-----------------------------------------------------------------------------
(* JSON: json.dump and json.load *)

JNull == [t |-> "null"]
JStr(s) == [t |-> "string", v |-> s]
JNum(n) == [t |-> "number", v |-> n]
JBool(b) == [t |-> IF b THEN "true" ELSE "false"]
JArr(s) == [t |-> "array", v |-> s]
JObj(f) == [t |-> "object", v |-> f]

DumpEntry(e) ==
    JObj([timestamp |-> JStr(e.timestamp),
          user      |-> JStr(e.user),
          assistant |-> JStr(e.assistant)])

DumpTodo(td) ==
    JObj([id         |-> JNum(td.id),
          task       |-> JStr(td.task),
          created_at |-> JStr(td.created_at),
          completed  |-> JBool(td.completed)])

DumpField(k, v) ==
    CASE k = "conversation_history" -> JArr([i \in DOMAIN v |-> DumpEntry(v[i])])
      [] k = "todos"                -> JArr([i \in DOMAIN v |-> DumpTodo(v[i])])
      [] k = "user_name"            -> IF v = None THEN JNull ELSE JStr(v)
      [] OTHER                      -> JStr(v)

\* json.dump that leaves out the keys whose value is None
JsonDump_SkipsNull(mem) ==
    JObj([k \in {x \in DOMAIN mem : ~(x = "user_name" /\ mem[x] = None)}
            |-> DumpField(k, mem[k])])

\* json.dump(self.memory, f, indent=2, ensure_ascii=False)
JsonDump(mem) == JObj([k \in DOMAIN mem |-> DumpField(k, mem[k])])

LoadScalar(j) ==
    CASE j.t = "null"  -> None
      [] j.t = "true"  -> TRUE
      [] j.t = "false" -> FALSE
      [] OTHER         -> j.v

LoadItem(j) ==
    IF j.t = "object" THEN [k \in DOMAIN j.v |-> LoadScalar(j.v[k])]
    ELSE LoadScalar(j)

LoadField(j) ==
    IF j.t = "array" THEN [i \in DOMAIN j.v |-> LoadItem(j.v[i])]
    ELSE LoadItem(j)

\* json.load(f)
JsonLoad(j) ==
    IF j.t = "object" THEN [k \in DOMAIN j.v |-> LoadField(j.v[k])]
    ELSE LoadField(j)

-----------------------------------------------------------------------------
(* The backing file *)

MissingFile     == [kind |-> "missing"]
UndecodableFile == [kind |-> "bytes"]
InvalidTextFile == [kind |-> "text"]
JsonFile(j)     == [kind |-> "json", value |-> j]

\* the default document with its two timestamps taken in the other order
DefaultMemory_LastUpdatedFirst(t1, t2) ==
    [conversation_history |-> <<>>,
     user_name            |-> None,
     todos                |-> <<>>,
     created_at           |-> t2,
     last_updated         |-> t1]

\* the document load_memory builds when there is nothing to load
DefaultMemory(t1, t2) ==
    [conversation_history |-> <<>>,
     user_name            |-> None,
     todos                |-> <<>>,
     created_at           |-> t1,
     last_updated         |-> t2]

\* MemoryManager.load_memory: what it returns, or the exception that leaves it
LoadMemory(f, t1, t2) ==
    CASE f.kind = "missing" ->
            [raised |-> "none", fresh |-> TRUE, value |-> DefaultMemory(t1, t2)]
      [] f.kind = "text" ->   \* json.JSONDecodeError is caught
            [raised |-> "none", fresh |-> TRUE, value |-> DefaultMemory(t1, t2)]
      [] f.kind = "bytes" ->  \* UnicodeDecodeError is not caught
            [raised |-> "UnicodeDecodeError", fresh |-> FALSE, value |-> None]
      [] OTHER ->
            [raised |-> "none", fresh |-> FALSE, value |-> JsonLoad(f.value)]

\* the write of save_memory: "ok", or open() fails, or json.dump fails after
\* open(..., 'w') has truncated the file
WriteFile(f, mem, w) ==
    CASE w = "ok"          -> JsonFile(JsonDump(mem))
      [] w = "open_failed" -> f
      [] OTHER             -> InvalidTextFile

\* save_memory that restores the document from the file when the write fails
SaveMemory_RollsBack(mem, f, t, w) ==
    LET m2 == DictSet(mem, "last_updated", t)
    IN  [memory |-> IF w # "ok" /\ f.kind = "json" THEN JsonLoad(f.value) ELSE m2,
         file   |-> WriteFile(f, m2, w)]

\* MemoryManager.save_memory
SaveMemory(mem, f, t, w) ==
    LET m2 == DictSet(mem, "last_updated", t)
    IN  [memory |-> m2, file |-> WriteFile(f, m2, w)]

-----------------------------------------------------------------------------
(* Store operations as functions of the document *)

IsActive(td) == ~td.completed

ActiveTodos(mem) == SelectSeq(mem.todos, IsActive)

\* existing_tasks without the .lower() on the stored tasks
ExistingTasks_CaseSensitive(mem) ==
    {mem.todos[i].task : i \in {j \in DOMAIN mem.todos : IsActive(mem.todos[j])}}

\* existing_tasks of add_todo
ExistingTasks(mem) ==
    {Lower(mem.todos[i].task) : i \in {j \in DOMAIN mem.todos : IsActive(mem.todos[j])}}

\* the duplicate check without the filter on completed
IsDuplicate_CountsCompleted(mem, task) ==
    Lower(task) \in {Lower(mem.todos[i].task) : i \in DOMAIN mem.todos}

IsDuplicate(mem, task) == Lower(task) \in ExistingTasks(mem)

\* todo_item numbered by the count of active items
NewTodoItem_CountsActive(mem, task, t) ==
    [id |-> Len(ActiveTodos(mem)) + 1, task |-> task, created_at |-> t,
     completed |-> FALSE]

\* todo_item of add_todo
NewTodoItem(mem, task, t) ==
    [id |-> Len(mem.todos) + 1, task |-> task, created_at |-> t, completed |-> FALSE]

AppendTodo(mem, task, t) ==
    DictSet(mem, "todos", Append(mem.todos, NewTodoItem(mem, task, t)))

\* MemoryManager.get_user_name: dict.get(key, default)
GetUserNameOf(mem) ==
    IF HasKey(mem, "user_name") THEN mem.user_name ELSE "Friend"

\* the text list_todos returns
ListTodosOf(mem) ==
    IF Len(ActiveTodos(mem)) = 0
    THEN [kind |-> "EmptyList"]
    ELSE [kind |-> "List",
          items |-> [i \in DOMAIN ActiveTodos(mem) |-> ActiveTodos(mem)[i].task]]

IsAllSentinel(task) == Lower(task) \in AllSentinels

\* the "all" loop leaving after the first active item
CompleteAll_FirstOnly(todos) ==
    [i \in DOMAIN todos |->
        IF \A j \in 1..(i - 1) : todos[j].completed
        THEN [todos[i] EXCEPT !.completed = TRUE]
        ELSE todos[i]]

\* the loop of remove_todo's "all" branch
CompleteAll(todos) ==
    [i \in DOMAIN todos |-> [todos[i] EXCEPT !.completed = TRUE]]

\* removal that deletes the item instead of flagging it
CompleteAt_Deletes(todos, i) ==
    SubSeq(todos, 1, i - 1) \o SubSeq(todos, i + 1, Len(todos))

\* todo["completed"] = True on the item at index i
CompleteAt(todos, i) == [todos EXCEPT ![i].completed = TRUE]

Matches(td, task) == Lower(td.task) = Lower(task) /\ ~td.completed

\* the single-task loop running to its end: the last matching item is the one completed
FirstMatch_Last(todos, task) ==
    IF \E i \in DOMAIN todos : Matches(todos[i], task)
    THEN CHOOSE i \in DOMAIN todos :
            /\ Matches(todos[i], task)
            /\ \A j \in (i + 1)..Len(todos) : ~Matches(todos[j], task)
    ELSE 0

\* the loop of remove_todo's single-task branch: index of the item it completes, 0 if none
FirstMatch(todos, task) ==
    IF \E i \in DOMAIN todos : Matches(todos[i], task)
    THEN CHOOSE i \in DOMAIN todos :
            /\ Matches(todos[i], task)
            /\ \A j \in 1..(i - 1) : ~Matches(todos[j], task)
    ELSE 0

\* truncation that keeps one entry too many
TruncateHistory_OneMore(h) ==
    IF Len(h) > HistoryLimit + 1 THEN Tail_n(h, HistoryLimit + 1) ELSE h

\* the truncation of add_conversation
TruncateHistory(h) ==
    IF Len(h) > HistoryLimit THEN Tail_n(h, HistoryLimit) ELSE h

AppendConversation(mem, u, a, t) ==
    DictSet(mem, "conversation_history",
            TruncateHistory(Append(mem.conversation_history,
                                   [timestamp |-> t, user |-> u, assistant |-> a])))

\* recent_history taken from the front of the history
RecentHistory_Oldest(mem) ==
    SubSeq(mem.conversation_history, 1,
           IF Len(mem.conversation_history) < ContextWindow
           THEN Len(mem.conversation_history) ELSE ContextWindow)

\* recent_history of get_context_for_llm
RecentHistory(mem) == Tail_n(mem.conversation_history, ContextWindow)

\* the lines of the context string
NameLine(name)   == [line |-> "User's name", text |-> Str(name)]
BlankLine        == [line |-> ""]
HeaderLine       == [line |-> "Recent conversation"]
UserLine(u)      == [line |-> "User", text |-> u]
AssistantLine(a) == [line |-> "Assistant", text |-> a]

\* the loop of get_context_for_llm: two lines per entry
EntryLines(h) ==
    [i \in 1..(2 * Len(h)) |->
        IF i % 2 = 1 THEN UserLine(h[(i + 1) \div 2].user)
        ELSE AssistantLine(h[i \div 2].assistant)]

\* the string get_context_for_llm returns, as its sequence of lines
ContextOf(mem) ==
    <<NameLine(GetUserNameOf(mem))>>
        \o ( IF Len(RecentHistory(mem)) > 0
             THEN <<BlankLine, HeaderLine>> \o EntryLines(RecentHistory(mem))
             ELSE <<>> )

\* chat: user_lower in [...]
IsGreeting(user_input) == Lower(user_input) \in Greetings

\* chat: the canned response to a greeting
GreetingResponse(name) ==
    "Hello " \o Str(name)
        \o "! How can I help you today? I can manage your todos or just chat with you."

\* chat: the response of the except branch
ErrorResponse(error) ==
    "I apologize, but I encountered an error: " \o error \o ". Please try again."

\* the string chat returns when add_conversation does not raise
ChatResponse(mem, user_input, e) ==
    IF IsGreeting(user_input) THEN GreetingResponse(GetUserNameOf(mem))
    ELSE IF e.raised THEN ErrorResponse(e.error)
    ELSE e.output

-----------------------------------------------------------------------------
(* Return values *)

NoneResult         == [kind |-> "None"]
Value(v)           == [kind |-> "Value", value |-> v]
Added(task)        == [kind |-> "Added", task |-> task]
AlreadyExists(task) == [kind |-> "AlreadyExists", task |-> task]
AlreadyEmpty       == [kind |-> "AlreadyEmpty"]
RemovedAll(count)  == [kind |-> "RemovedAll", count |-> count]
Removed(task)      == [kind |-> "Removed", task |-> task]
NotFound(task)     == [kind |-> "NotFound", task |-> task]

-----------------------------------------------------------------------------
(* Initial state: the store is not constructed yet; the backing file holds   *)
(* whatever was left at data/memory.json.  Documents left there carry the    *)
(* timestamp 0; the clock of the run reads 1 or later.                       *)

\* a document with n conversation entries
SavedDocument(n) ==
    [conversation_history |->
        [i \in 1..n |-> [timestamp |-> 0, user |-> "earlier", assistant |-> "ok"]],
     user_name            |-> "Ann",
     todos                |-> <<>>,
     created_at           |-> 0,
     last_updated         |-> 0]

\* a document the program has saved: one active todo, a name, one exchange
EarlierDocument ==
    [conversation_history |->
        <<[timestamp |-> 0, user |-> "earlier", assistant |-> "ok"]>>,
     user_name            |-> "Bob",
     todos                |->
        <<[id |-> 1, task |-> BuyMilk, created_at |-> 0, completed |-> FALSE]>>,
     created_at           |-> 0,
     last_updated         |-> 0]

\* a document whose todos hold the same task three times: completed, then
\* active twice, in two spellings
AlikeTodosDocument ==
    [conversation_history |-> <<>>,
     user_name            |-> "Ann",
     todos                |->
        <<[id |-> 1, task |-> BuyMilk,  created_at |-> 0, completed |-> TRUE],
          [id |-> 2, task |-> buy_milk, created_at |-> 0, completed |-> FALSE],
          [id |-> 3, task |-> BuyMilk,  created_at |-> 0, completed |-> FALSE]>>,
     created_at           |-> 0,
     last_updated         |-> 0]

\* a document left by earlier chats, its history at the limit
ChatDocument ==
    [conversation_history |->
        [i \in 1..HistoryLimit |->
            [timestamp |-> 0, user |-> Earlier, assistant |-> "ok"]],
     user_name            |-> "Bob",
     todos                |-> <<>>,
     created_at           |-> 0,
     last_updated         |-> 0]

\* valid JSON that is not a Memory Document
NotADocument == JObj([user_name |-> JStr("Ann")])

InitialFiles ==
    { MissingFile,
      InvalidTextFile,
      UndecodableFile,
      JsonFile(NotADocument),
      JsonFile(JsonDump(EarlierDocument)) }

\* no file, and documents at and above the history limit
HistoryFiles ==
    { MissingFile,
      JsonFile(JsonDump(SavedDocument(HistoryLimit))),
      JsonFile(JsonDump(SavedDocument(HistoryLimit + 1))) }

\* the files from which load_memory starts a fresh document
FreshFiles == {MissingFile, InvalidTextFile}

\* no file, and a document with several items of one task
RemoveFiles == {MissingFile, JsonFile(JsonDump(AlikeTodosDocument))}

NoCall == [name |-> "none", arg |-> None, result |-> NoneResult,
           raised |-> "none", save |-> "none"]

InitWith(files) ==
    /\ store = "unopened"
    /\ memory = None
    /\ file \in files
    /\ clock = 1
    /\ failures = 0
    /\ nconv = 0
    /\ op = NoCall

Init == InitWith(InitialFiles)

InitFresh == InitWith(FreshFiles)

InitHistory == InitWith(HistoryFiles)

InitRemove == InitWith(RemoveFiles)

\* no file, a document with a full history, and JSON that is not a document
ChatFiles ==
    { MissingFile,
      JsonFile(JsonDump(ChatDocument)),
      JsonFile(NotADocument) }

InitChat == InitWith(ChatFiles)

-----------------------------------------------------------------------------
(* Actions.  Besides its arguments an action takes what the environment      *)
(* decides: the readings t, t1, t2 of datetime.now() the call makes, in the  *)
(* order it makes them, and the outcome w of the file write.                 *)

Opened == store \in {"fresh", "loaded"}

\* readings of datetime.now()
Times == 1..MaxClock

WriteOutcomes == {"ok", "open_failed", "write_failed"}

\* a call that returns without saving
Returns(name, arg, result) ==
    /\ op' = [name |-> name, arg |-> arg, result |-> result,
              raised |-> "none", save |-> "none"]
    /\ UNCHANGED <<store, memory, file, clock, failures>>

\* a call that an exception leaves before it changed anything
Raises(name, arg, exc) ==
    /\ op' = [name |-> name, arg |-> arg, result |-> NoneResult,
              raised |-> exc, save |-> "none"]
    /\ UNCHANGED <<store, memory, file, clock, failures>>

\* a call that changes the document to mem2, calls save_memory at time t and returns
Persists(name, arg, mem2, result, t, w) ==
    LET s == SaveMemory(mem2, file, t, w)
    IN  /\ w # "ok" => failures < MaxWriteFailures
        /\ memory' = s.memory
        /\ file' = s.file
        /\ clock' = t
        /\ failures' = IF w = "ok" THEN failures ELSE failures + 1
        /\ op' = [name |-> name, arg |-> arg, result |-> result,
                  raised |-> "none", save |-> w]
        /\ UNCHANGED store

\* MemoryManager.__init__
Open(t1, t2) ==
    /\ store = "unopened"
    /\ clock <= t1 /\ t1 <= t2
    /\ LET r == LoadMemory(file, t1, t2)
       IN  /\ store' = IF r.raised # "none" THEN "failed"
                       ELSE IF r.fresh THEN "fresh" ELSE "loaded"
           /\ memory' = r.value
           /\ clock' = IF r.fresh THEN t2 ELSE clock
           /\ op' = [name |-> "open", arg |-> None, result |-> NoneResult,
                     raised |-> r.raised, save |-> "none"]
    /\ UNCHANGED <<file, failures, nconv>>

\* MemoryManager.add_todo
AddTodo(task, t1, t2, w) ==
    /\ Opened
    /\ UNCHANGED nconv
    /\ IF ~HasKey(memory, "todos")
       THEN Raises("add_todo", task, "KeyError")
       ELSE IF IsDuplicate(memory, task)
       THEN Returns("add_todo", task, AlreadyExists(task))
       ELSE /\ Len(memory.todos) < MaxTodos
            /\ clock <= t1 /\ t1 <= t2
            /\ Persists("add_todo", task, AppendTodo(memory, task, t1), Added(task), t2, w)

\* MemoryManager.list_todos
ListTodos ==
    /\ Opened
    /\ UNCHANGED nconv
    /\ IF ~HasKey(memory, "todos")
       THEN Raises("list_todos", None, "KeyError")
       ELSE Returns("list_todos", None, ListTodosOf(memory))

\* MemoryManager.remove_todo
RemoveTodo(task, t, w) ==
    /\ Opened
    /\ UNCHANGED nconv
    /\ IF ~HasKey(memory, "todos")
       THEN Raises("remove_todo", task, "KeyError")
       ELSE IF IsAllSentinel(task)
       THEN IF Len(ActiveTodos(memory)) = 0
            THEN Returns("remove_todo", task, AlreadyEmpty)
            ELSE /\ clock <= t
                 /\ Persists("remove_todo", task,
                             DictSet(memory, "todos", CompleteAll(memory.todos)),
                             RemovedAll(Len(ActiveTodos(memory))), t, w)
       ELSE IF FirstMatch(memory.todos, task) = 0
            THEN Returns("remove_todo", task, NotFound(task))
            ELSE /\ clock <= t
                 /\ Persists("remove_todo", task,
                             DictSet(memory, "todos",
                                     CompleteAt(memory.todos, FirstMatch(memory.todos, task))),
                             Removed(task), t, w)

\* MemoryManager.set_user_name
SetUserName(name, t, w) ==
    /\ Opened
    /\ UNCHANGED nconv
    /\ clock <= t
    /\ Persists("set_user_name", name, DictSet(memory, "user_name", name), NoneResult, t, w)

\* MemoryManager.get_user_name
GetUserName ==
    /\ Opened
    /\ UNCHANGED nconv
    /\ Returns("get_user_name", None, Value(GetUserNameOf(memory)))

\* MemoryManager.add_conversation
AddConversation(u, a, t1, t2, w) ==
    /\ Opened
    /\ nconv' = nconv + 1
    /\ IF ~HasKey(memory, "conversation_history")
       THEN Raises("add_conversation", <<u, a>>, "KeyError")
       ELSE /\ clock <= t1 /\ t1 <= t2
            /\ Persists("add_conversation", <<u, a>>,
                        AppendConversation(memory, u, a, t1), NoneResult, t2, w)

\* MemoryManager.get_context_for_llm
GetContextForLLM ==
    /\ Opened
    /\ UNCHANGED nconv
    /\ IF ~HasKey(memory, "conversation_history")
       THEN Raises("get_context_for_llm", None, "KeyError")
       ELSE Returns("get_context_for_llm", None, Value(ContextOf(memory)))

\* GeminiTodoAgent.chat.  e is what agent_executor.invoke does when the call
\* reaches it.  Without the key conversation_history add_conversation raises
\* KeyError: on the greeting path inside the try and again inside the except
\* branch, on the other path get_context_for_llm raises it first and
\* add_conversation raises it inside the except branch; it leaves chat.
Chat(user_input, e, t1, t2, w) ==
    /\ Opened
    /\ IF ~HasKey(memory, "conversation_history")
       THEN /\ nconv' = nconv + (IF IsGreeting(user_input) THEN 2 ELSE 1)
            /\ Raises("chat", user_input, "KeyError")
       ELSE /\ nconv' = nconv + 1
            /\ clock <= t1 /\ t1 <= t2
            /\ Persists("chat", user_input,
                        AppendConversation(memory, user_input,
                                           ChatResponse(memory, user_input, e), t1),
                        Value(ChatResponse(memory, user_input, e)), t2, w)

\* GeminiTodoAgent.reset_conversation
ResetConversation(t, w) ==
    /\ Opened
    /\ UNCHANGED nconv
    /\ clock <= t
    /\ Persists("reset_conversation", None,
                DictSet(memory, "conversation_history", <<>>), NoneResult, t, w)

-----------------------------------------------------------------------------
(* Specifications *)

\* Every operation of the store, on any backing file, with a disk whose
\* writes may fail; the calls are made within one reading of the clock,
\* later than the timestamps of the documents found on disk.
Next ==
    \/ Open(clock, clock)
    \/ \E w \in WriteOutcomes : AddTodo(buy_milk, clock, clock, w)
    \/ ListTodos
    \/ \E task \in {BuyMilk, AllTasks}, w \in WriteOutcomes :
            RemoveTodo(task, clock, w)
    \/ \E name \in NameInputs, w \in WriteOutcomes : SetUserName(name, clock, w)
    \/ GetUserName
    \/ /\ nconv < MaxConversations
       /\ \E u \in UserTexts, a \in AssistantTexts, w \in WriteOutcomes :
             AddConversation(u, a, clock, clock, w)
    \/ \E w \in WriteOutcomes : ResetConversation(clock, w)

Spec == Init /\ [][Next]_vars

\* The operations that save, on a store that starts fresh or on a document
\* whose history is at or above the limit; the calls are made within one
\* reading of the clock.
NextHistory ==
    \/ Open(clock, clock)
    \/ \E w \in WriteOutcomes : AddTodo(BuyMilk, clock, clock, w)
    \/ \E w \in WriteOutcomes : RemoveTodo(BuyMilk, clock, w)
    \/ \E name \in NameInputs, w \in WriteOutcomes : SetUserName(name, clock, w)
    \/ /\ nconv < MaxConversations
       /\ \E u \in UserTexts, a \in AssistantTexts, w \in WriteOutcomes :
             AddConversation(u, a, clock, clock, w)
    \/ \E w \in WriteOutcomes : ResetConversation(clock, w)

SpecHistory == InitHistory /\ [][NextHistory]_vars

\* The todo operations on a store that starts fresh, with a clock that
\* advances between readings; the writes succeed.
NextTodos ==
    \/ \E t1, t2 \in Times : Open(t1, t2)
    \/ \E task \in TaskInputs, t1, t2 \in Times : AddTodo(task, t1, t2, "ok")
    \/ ListTodos
    \/ \E task \in TaskInputs, t \in Times : RemoveTodo(task, t, "ok")

SpecTodos == InitFresh /\ [][NextTodos]_vars

\* The todo operations on a store that starts fresh or on a document with
\* several items of one task, with a disk whose writes may fail; the calls
\* are made within one reading of the clock.
NextRemove ==
    \/ Open(clock, clock)
    \/ \E task \in TaskInputs, w \in WriteOutcomes : AddTodo(task, clock, clock, w)
    \/ ListTodos
    \/ \E task \in TaskInputs, w \in WriteOutcomes : RemoveTodo(task, clock, w)

SpecRemove == InitRemove /\ [][NextRemove]_vars

\* A numbered conversation on a store that starts fresh: the k-th call of
\* add_conversation carries the user message str(k); the context is read
\* and the name is set in between; writes may fail; the calls are made
\* within one reading of the clock.
NextConversation ==
    \/ Open(clock, clock)
    \/ /\ nconv < MaxAppends
       /\ \E a \in AssistantTexts, w \in WriteOutcomes :
             AddConversation(Message(nconv + 1), a, clock, clock, w)
    \/ GetContextForLLM
    \/ \E name \in NameInputs, w \in WriteOutcomes : SetUserName(name, clock, w)

SpecConversation == InitFresh /\ [][NextConversation]_vars

\* Every operation that saves, on a store that starts fresh, with a clock
\* that advances between readings; the writes succeed.
NextClock ==
    \/ \E t1, t2 \in Times : Open(t1, t2)
    \/ \E t1, t2 \in Times : AddTodo(buy_milk, t1, t2, "ok")
    \/ \E task \in {BuyMilk, AllTasks}, t \in Times : RemoveTodo(task, t, "ok")
    \/ \E name \in NameInputs, t \in Times : SetUserName(name, t, "ok")
    \/ /\ nconv < MaxConversations
       /\ \E u \in UserTexts, a \in AssistantTexts, t1, t2 \in Times :
             AddConversation(u, a, t1, t2, "ok")
    \/ \E t \in Times : ResetConversation(t, "ok")

SpecClock == InitFresh /\ [][NextClock]_vars

\* The agent's chat on a store that starts fresh, on a document whose
\* history is full, or on JSON that is not a document; the name is set and
\* the history reset in between; writes may fail; the calls are made within
\* one reading of the clock.
NextChat ==
    \/ Open(clock, clock)
    \/ /\ nconv < MaxConversations
       /\ \E user_input \in ChatInputs, e \in ExecutorOutcomes, w \in WriteOutcomes :
             Chat(user_input, e, clock, clock, w)
    \/ \E name \in NameInputs, w \in WriteOutcomes : SetUserName(name, clock, w)
    \/ \E w \in WriteOutcomes : ResetConversation(clock, w)

SpecChat == InitChat /\ [][NextChat]_vars

-----------------------------------------------------------------------------
(* Vocabulary of the properties *)

Todos == memory.todos
History == memory.conversation_history

\* the store holds a Memory Document
IsDocument(mem) ==
    {"conversation_history", "user_name", "todos", "created_at", "last_updated"}
        \subseteq DOMAIN mem

\* task equals the task of item td under case-insensitive comparison
SameTask(td, task) == Lower(td.task) = Lower(task)

\* some active item of the todo list has this task
HasActive(todos, task) ==
    \E i \in DOMAIN todos : ~todos[i].completed /\ SameTask(todos[i], task)

NumActive(todos) == Cardinality({i \in DOMAIN todos : ~todos[i].completed})

\* what a new store opened on the file f would hold
Reloaded(f) == LoadMemory(f, clock, clock)

InSync == Reloaded(file).raised = "none" /\ ~Reloaded(file).fresh
          /\ Reloaded(file).value = memory

-----------------------------------------------------------------------------
(* C1: get_user_name() returns the stored name when one is set and "Friend" *)
(* when none is set, in particular on a fresh document.                     *)
(* Stated as the claim states it; the code returns None on a fresh document *)

C1_GetUserNameDefault ==
    (Opened /\ op.name = "get_user_name") =>
        op.result = Value(IF HasKey(memory, "user_name") /\ memory.user_name # None
                          THEN memory.user_name
                          ELSE "Friend")

-----------------------------------------------------------------------------
(* C2 as stated: whenever save_memory has just run, whatever document the   *)
(* store opened on, conversation_history has at most 50 entries in memory   *)
(* and on disk.                                                             *)

C2_HistoryBoundedAfterAnySave ==
    (Opened /\ op.save # "none" /\ HasKey(memory, "conversation_history")) =>
        /\ Len(History) <= HistoryLimit
        /\ op.save = "ok" =>
              Len(Reloaded(file).value.conversation_history) <= HistoryLimit

(* C2 as amended: a call that runs save_memory never takes a history of at  *)
(* most 50 entries above 50 (so the bound holds after every save on a store *)
(* that opened fresh or on a document of at most 50 entries), and after     *)
(* add_conversation and reset_conversation the history has at most 50       *)
(* entries whatever it had before; when the write succeeds the file holds   *)
(* that same history.                                                       *)

C2_HistoryBoundKept ==
    [][ (Opened /\ op'.save # "none" /\ HasKey(memory, "conversation_history")) =>
          /\ ( Len(History) <= HistoryLimit
               \/ op'.name \in {"add_conversation", "reset_conversation"} )
                => Len(History') <= HistoryLimit
          /\ op'.save = "ok" =>
                Reloaded(file').value.conversation_history = History'
      ]_vars

\* add_conversation has dropped the oldest entry of a full history
C2_Witness ==
    /\ store = "loaded" /\ op.name = "add_conversation" /\ op.save = "ok"
    /\ Len(History) = HistoryLimit
    /\ History[HistoryLimit].user = op.arg[1]
    /\ History[HistoryLimit - 1].user = "earlier"

-----------------------------------------------------------------------------
(* C3: starting from a fresh document, after any sequence of add_todo and   *)
(* remove_todo calls no two active items have task strings that are equal   *)
(* under case-insensitive comparison.                                       *)

C3_NoDuplicateActive ==
    store = "fresh" =>
        \A i, j \in DOMAIN Todos :
            (i # j /\ ~Todos[i].completed /\ ~Todos[j].completed)
                => Lower(Todos[i].task) # Lower(Todos[j].task)

\* an add was refused for a task that differs from the active one only in case
C3_Witness ==
    /\ store = "fresh" /\ op.name = "add_todo" /\ op.result.kind = "AlreadyExists"
    /\ \E i \in DOMAIN Todos :
          ~Todos[i].completed /\ Todos[i].task # op.arg /\ SameTask(Todos[i], op.arg)

-----------------------------------------------------------------------------
(* C4: starting from a fresh document the k-th successful add_todo assigns  *)
(* id k whatever remove_todo calls are interleaved: the item at position k  *)
(* of todos has id k, the ids are pairwise distinct, and the item a         *)
(* successful add has just appended is the last one.                        *)

C4_IdsInCreationOrder ==
    store = "fresh" =>
        /\ \A k \in DOMAIN Todos : Todos[k].id = k
        /\ \A i, j \in DOMAIN Todos : i # j => Todos[i].id # Todos[j].id
        /\ (op.name = "add_todo" /\ op.result.kind = "Added") =>
              /\ Len(Todos) > 0
              /\ Todos[Len(Todos)].task = op.arg
              /\ Todos[Len(Todos)].id = Len(Todos)

\* a second item was added after the first one was soft-deleted
C4_Witness ==
    /\ store = "fresh" /\ op.name = "add_todo" /\ op.result.kind = "Added"
    /\ Len(Todos) = 2 /\ Todos[1].completed /\ Todos[2].id = 2

-----------------------------------------------------------------------------
(* C5: across any sequence of store operations the todos sequence is        *)
(* append-only: no operation removes or reorders an item or changes its id  *)
(* or task, remove_todo leaves the item count unchanged, and a completed    *)
(* flag never goes from true back to false.                                 *)

C5_TodosAppendOnly ==
    [][ (Opened /\ HasKey(memory, "todos")) =>
          /\ HasKey(memory', "todos")
          /\ Len(Todos') >= Len(Todos)
          /\ \A i \in DOMAIN Todos :
                /\ Todos'[i].id = Todos[i].id
                /\ Todos'[i].task = Todos[i].task
                /\ Todos[i].completed => Todos'[i].completed
          /\ op'.name = "remove_todo" => Len(Todos') = Len(Todos)
      ]_vars

\* a remove has soft-deleted the second of two items
C5_Witness ==
    /\ Opened /\ op.name = "remove_todo" /\ op.result.kind = "Removed"
    /\ Len(Todos) = 2 /\ Todos[2].completed

-----------------------------------------------------------------------------
(* C6 as stated: whenever remove_todo is called with a sentinel, every      *)
(* active item becomes completed, the document is persisted, the message    *)
(* cites the number of items that were active, and list_todos() then        *)
(* returns the empty-list message.                                          *)

C6_RemoveAllAlwaysPersists ==
    (Opened /\ op.name = "remove_todo" /\ IsAllSentinel(op.arg)) =>
        /\ op.result.kind = "RemovedAll"
        /\ op.save # "none"
        /\ NumActive(Todos) = 0
        /\ ListTodosOf(memory) = [kind |-> "EmptyList"]

(* C6 as amended: remove_todo with a sentinel, when at least one item is    *)
(* active, completes every active item, keeps every item, runs save_memory  *)
(* (the file then holds the document), returns the message citing the       *)
(* number of items that were active, and list_todos() then returns the      *)
(* empty-list message; when no item is active it returns the already-empty  *)
(* message and changes neither the document nor the file.                   *)

C6_RemoveAll ==
    [][ (Opened /\ op'.name = "remove_todo" /\ IsAllSentinel(op'.arg)) =>
          IF NumActive(Todos) = 0
          THEN /\ op'.result = AlreadyEmpty
               /\ op'.save = "none"
               /\ memory' = memory /\ file' = file
          ELSE /\ op'.result = RemovedAll(NumActive(Todos))
               /\ Len(Todos') = Len(Todos)
               /\ \A i \in DOMAIN Todos' : Todos'[i].completed
               /\ op'.save = "ok" /\ InSync'
               /\ ListTodosOf(memory') = [kind |-> "EmptyList"]
      ]_vars

\* "All Tasks" has removed two active items
C6_Witness ==
    /\ Opened /\ op.name = "remove_todo" /\ op.arg = AllTasks
    /\ op.result = RemovedAll(2)

-----------------------------------------------------------------------------
(* C7: opening the store never raises because of the file's content: on a   *)
(* file that is missing or does not hold a Memory Document the store starts *)
(* with a fresh document, and no later store operation raises.              *)
(* Stated as the claim states it; the code lets UnicodeDecodeError out of   *)
(* load_memory and loads JSON of any shape verbatim.                        *)

FileHoldsDocument(f) ==
    /\ f.kind = "json"
    /\ f.value.t = "object"
    /\ IsDocument(f.value.v)

C7_FreshStartOnAnyFile ==
    /\ store # "failed"
    /\ op.raised = "none"
    /\ (op.name = "open" /\ ~FileHoldsDocument(file)) =>
          /\ store = "fresh"
          /\ memory.todos = <<>>
          /\ memory.conversation_history = <<>>

-----------------------------------------------------------------------------
(* C8: after every mutating operation whose file write succeeds the backing *)
(* file holds exactly the in-memory document: a new store opened on it      *)
(* loads a document equal to the in-memory one field for field.             *)

C8_SavedFileReloadsEqual ==
    (Opened /\ op.save = "ok") => InSync

\* a fresh document, user_name still None, was written and reloads equal
C8_Witness ==
    /\ store = "fresh" /\ op.name = "add_todo" /\ op.save = "ok"
    /\ memory.user_name = None /\ Len(Todos) = 1
    /\ InSync

-----------------------------------------------------------------------------
(* C9: when the file write of a mutating operation fails, the operation     *)
(* raises nothing and returns its normal result, the in-memory document     *)
(* keeps the mutation, and the next save that succeeds leaves the file      *)
(* equal to the whole in-memory document.                                   *)

C9_KeepsMutation(m, m2, o) ==
    CASE o.name = "add_todo" ->
            /\ o.result = Added(o.arg)
            /\ HasKey(m2, "todos")
            /\ Len(m2.todos) = Len(m.todos) + 1
            /\ m2.todos[Len(m2.todos)].task = o.arg
      [] o.name = "remove_todo" ->
            /\ o.result.kind \in {"Removed", "RemovedAll"}
            /\ HasKey(m2, "todos")
            /\ NumActive(m2.todos) < NumActive(m.todos)
      [] o.name = "set_user_name" ->
            /\ o.result = NoneResult
            /\ HasKey(m2, "user_name")
            /\ m2.user_name = o.arg
      [] o.name = "add_conversation" ->
            /\ o.result = NoneResult
            /\ HasKey(m2, "conversation_history")
            /\ Len(m2.conversation_history) > 0
            /\ m2.conversation_history[Len(m2.conversation_history)].user = o.arg[1]
            /\ m2.conversation_history[Len(m2.conversation_history)].assistant = o.arg[2]
      [] o.name = "reset_conversation" ->
            /\ o.result = NoneResult
            /\ HasKey(m2, "conversation_history")
            /\ m2.conversation_history = <<>>
      [] OTHER -> FALSE

C9_FailedWriteSwallowed ==
    [][ Opened =>
          /\ op'.save \in {"open_failed", "write_failed"} =>
                /\ op'.raised = "none"
                /\ C9_KeepsMutation(memory, memory', op')
                /\ file' \in {file, InvalidTextFile}
          /\ (~InSync /\ op'.save = "ok") => InSync'
      ]_vars

\* the write of an add_todo failed part-way: the item is in memory, not on disk
C9_Witness ==
    /\ Opened /\ op.name = "add_todo" /\ op.save = "write_failed"
    /\ op.result.kind = "Added" /\ Len(Todos) = 1
    /\ ~InSync

-----------------------------------------------------------------------------
(* C10: add_todo(task), when task equals the task of some active item       *)
(* case-insensitively, returns the already-exists message and changes       *)
(* nothing (document, last_updated and file unchanged, no save); when no    *)
(* active item matches, also when only completed items match, it appends    *)
(* exactly one new active item, persists and returns the confirmation.      *)

C10_AddTodoFrame ==
    [][ (Opened /\ op'.name = "add_todo") =>
          IF HasActive(Todos, op'.arg)
          THEN /\ op'.result = AlreadyExists(op'.arg)
               /\ op'.save = "none"
               /\ memory' = memory /\ file' = file
          ELSE /\ op'.result = Added(op'.arg)
               /\ Len(Todos') = Len(Todos) + 1
               /\ SubSeq(Todos', 1, Len(Todos)) = Todos
               /\ Todos'[Len(Todos')].task = op'.arg
               /\ ~Todos'[Len(Todos')].completed
               /\ History' = History
               /\ memory'.user_name = memory.user_name
               /\ memory'.created_at = memory.created_at
               /\ op'.save = "ok" /\ InSync'
      ]_vars

\* a task was added again after its first item was soft-deleted
C10_Witness ==
    /\ Opened /\ op.name = "add_todo" /\ op.result.kind = "Added"
    /\ Len(Todos) = 2 /\ Todos[1].completed /\ ~Todos[2].completed
    /\ SameTask(Todos[1], op.arg)

-----------------------------------------------------------------------------
(* C11: remove_todo(task) with a non-sentinel task changes at most one      *)
(* item.  If some active item matches case-insensitively, exactly the first *)
(* such item in insertion order becomes completed, every other item is      *)
(* unchanged, save_memory runs (the file then holds the document when the   *)
(* write succeeds) and the confirmation is returned.  If no active item     *)
(* matches it returns the not-found message, runs no save and leaves        *)
(* memory and file unchanged; so the same remove repeated right after a     *)
(* not-found one, or right after a removal on a store that opened fresh,    *)
(* returns not-found and changes nothing.                                   *)

ActiveMatches(todos, task) ==
    {i \in DOMAIN todos : ~todos[i].completed /\ SameTask(todos[i], task)}

Least(S) == CHOOSE i \in S : \A j \in S : i <= j

C11_RemoveOne ==
    [][ (Opened /\ HasKey(memory, "todos")
           /\ op'.name = "remove_todo" /\ ~IsAllSentinel(op'.arg)) =>
          /\ IF ActiveMatches(Todos, op'.arg) # {}
             THEN /\ op'.result = Removed(op'.arg)
                  /\ Len(Todos') = Len(Todos)
                  /\ \A i \in DOMAIN Todos :
                        Todos'[i] =
                            IF i = Least(ActiveMatches(Todos, op'.arg))
                            THEN [Todos[i] EXCEPT !.completed = TRUE]
                            ELSE Todos[i]
                  /\ op'.save # "none"
                  /\ op'.save = "ok" => InSync'
             ELSE /\ op'.result = NotFound(op'.arg)
                  /\ op'.save = "none"
                  /\ memory' = memory /\ file' = file
          /\ ( op.name = "remove_todo" /\ op.arg = op'.arg
                 /\ ( op.result.kind = "NotFound"
                      \/ (op.result.kind = "Removed" /\ store = "fresh") ) )
                => /\ op'.result = NotFound(op'.arg)
                   /\ memory' = memory /\ file' = file
      ]_vars

\* of three items of one task, the first active one was completed and the
\* later active one was left alone
C11_Witness ==
    /\ store = "loaded" /\ op.name = "remove_todo" /\ op.result = Removed(BuyMilk)
    /\ Len(Todos) = 3
    /\ Todos[1].completed /\ Todos[2].completed /\ ~Todos[3].completed

-----------------------------------------------------------------------------
(* C12: add_conversation always appends the new entry and runs save_memory  *)
(* (the file then holds the document when the write succeeds), and drops    *)
(* the oldest entries first: after appending entries 1..k in order to a     *)
(* fresh document, conversation_history is exactly the last min(k, 50) of   *)
(* them in append order (entries 11..60 for k = 60).                        *)

C12_KeepsMostRecent ==
    store = "fresh" =>
        /\ Len(History) = (IF nconv < HistoryLimit THEN nconv ELSE HistoryLimit)
        /\ \A i \in DOMAIN History :
              History[i].user = Message(nconv - Len(History) + i)
        /\ op.name = "add_conversation" =>
              /\ op.raised = "none" /\ op.save # "none"
              /\ op.save = "ok" => InSync
              /\ History[Len(History)].user = op.arg[1]
              /\ History[Len(History)].assistant = op.arg[2]

\* sixty entries were appended: entries 11 to 60 are left
C12_Witness ==
    /\ store = "fresh" /\ op.name = "add_conversation" /\ nconv = 60
    /\ Len(History) = 50
    /\ History[1].user = Message(11) /\ History[50].user = Message(60)

-----------------------------------------------------------------------------
(* C13: get_context_for_llm() renders the user-name line and then, under    *)
(* the heading the code puts before them, exactly the most recent min(n, 5) *)
(* entries of an n-entry history, oldest first, each as a user line then an *)
(* assistant line; with an empty history it renders the name line only; it  *)
(* changes neither memory nor the backing file.                             *)

C13_ContextWindow ==
    [][ (Opened /\ op'.name = "get_context_for_llm") =>
          LET n     == Len(History)
              m     == IF n < 5 THEN n ELSE 5
              lines == op'.result.value
          IN  /\ memory' = memory /\ file' = file
              /\ op'.raised = "none"
              /\ lines[1] = NameLine(GetUserNameOf(memory))
              /\ IF n = 0
                 THEN Len(lines) = 1
                 ELSE /\ Len(lines) = 3 + 2 * m
                      /\ lines[2] = BlankLine /\ lines[3] = HeaderLine
                      /\ \A j \in 1..m :
                            /\ lines[3 + 2 * j - 1] = UserLine(History[n - m + j].user)
                            /\ lines[3 + 2 * j] =
                                  AssistantLine(History[n - m + j].assistant)
      ]_vars

\* the context of a seven-entry history holds entries 3 to 7
C13_Witness ==
    /\ store = "fresh" /\ op.name = "get_context_for_llm"
    /\ Len(History) = 7
    /\ Len(op.result.value) = 13
    /\ op.result.value[4] = UserLine(Message(3))
    /\ op.result.value[12] = UserLine(Message(7))

-----------------------------------------------------------------------------
(* C14: with a non-decreasing clock, in every reachable state of a store    *)
(* opened on a missing or corrupt file, last_updated >= created_at;         *)
(* created_at is never changed by any operation after initialisation; and   *)
(* last_updated never decreases from one save to the next.                  *)

C14_TimestampsOrdered ==
    [][ store' = "fresh" =>
          /\ memory'.last_updated >= memory'.created_at
          /\ store = "fresh" =>
                /\ memory'.created_at = memory.created_at
                /\ memory'.last_updated >= memory.last_updated
                /\ op'.save # "none" => memory'.last_updated >= clock
      ]_vars

\* a save at a later reading of the clock has moved last_updated past created_at
C14_Witness ==
    /\ store = "fresh" /\ op.save = "ok"
    /\ memory.created_at = 1
    /\ memory.last_updated = MaxClock
    /\ Len(Todos) > 0 /\ Todos[1].created_at < memory.last_updated

-----------------------------------------------------------------------------
(* C15: every call to chat(user_input) appends exactly one conversation     *)
(* entry, whose user text is user_input and whose assistant text is the     *)
(* string chat returns, on each of its three paths (canned greeting,        *)
(* executor success, executor exception); it never appends zero or two      *)
(* entries and no exception leaves it.                                      *)
(* Stated as the claim states it; on a store opened on JSON without the key *)
(* conversation_history the code appends nothing and KeyError leaves chat.  *)

C15_ChatAppendsOne ==
    [][ (Opened /\ op'.name = "chat") =>
          /\ op'.raised = "none"
          /\ HasKey(memory', "conversation_history")
          /\ Len(History') > 0
          /\ History'[Len(History')].user = op'.arg
          /\ History'[Len(History')].assistant = op'.result.value
          /\ IF Len(History) < HistoryLimit
             THEN SubSeq(History', 1, Len(History') - 1) = History
             ELSE /\ Len(History') = HistoryLimit
                  /\ SubSeq(History', 1, HistoryLimit - 1) =
                        SubSeq(History, Len(History) - HistoryLimit + 2, Len(History))
      ]_vars

-----------------------------------------------------------------------------
(* C16: every active todo can be removed on its own by its task string: for *)
(* any reachable document and any active item with task t, remove_todo(t)   *)
(* marks that item completed and leaves the completed flag of every other   *)
(* item unchanged.                                                          *)
(* Stated as the claim states it; when t is one of the "all" sentinels the  *)
(* code completes every active item.                                        *)

C16_RemovableOnItsOwn ==
    [][ (Opened /\ HasKey(memory, "todos") /\ op'.name = "remove_todo") =>
          \A i \in DOMAIN Todos :
              (~Todos[i].completed /\ Todos[i].task = op'.arg) =>
                  /\ Todos'[i].completed
                  /\ \A j \in DOMAIN Todos :
                        j # i => Todos'[j].completed = Todos[j].completed
      ]_vars

-----------------------------------------------------------------------------
(* C17: a save that fails never destroys previously persisted data: if the  *)
(* write in save_memory fails, at open or part-way through serialisation,   *)
(* the backing file still holds the last successfully saved document, so a  *)
(* store opened afterwards loads that document and does not fall back to a  *)
(* fresh empty one.                                                         *)
(* Stated as the claim states it; open(..., 'w') has truncated the file     *)
(* before json.dump fails, so the file is left without a document.          *)

C17_FailedSaveKeepsFile ==
    [][ ( Opened /\ FileHoldsDocument(file)
            /\ op'.save \in {"open_failed", "write_failed"} ) =>
          /\ file' = file
          /\ ~Reloaded(file').fresh
          /\ Reloaded(file').value = Reloaded(file).value
      ]_vars

====
